---- MODULE Spec2Model ----
(***************************************************************************)
(* A model of workmux's worktree lifecycle: `remove` (command layer and    *)
(* workflow layer) and `add` (request validation, spec expansion and the   *)
(* sequential creation loop).                                              *)
(*                                                                         *)
(* Strings the code inspects character by character (the user's answer to  *)
(* the confirmation prompt) are sequences of one-character strings.  Paths *)
(* are sequences of path components.                                       *)
(***************************************************************************)
EXTENDS Integers, Sequences, FiniteSets, TLC

VARIABLES
    listing,    \* blocks of `git worktree list --porcelain`, main worktree first
    canon,      \* file system: path -> canonical directory, or NoPath when it does not resolve
    dirty,      \* canonical directories whose `git status --porcelain` is non-empty
    branches,   \* local branches
    windows,    \* handles h for which the tmux window prefix+h is open
    world0,     \* the world as it was when the invocation started
    pc,         \* position of the running invocation
    call,       \* arguments and resolved values of the workflow::remove call
    cmd,        \* arguments and observations of the `workmux remove` command
    result,     \* what the invocation returned
    trace,      \* collaborator calls made so far, in order
    req,        \* arguments of the `workmux add` command
    specs,      \* the worktree specs generated for the request
    idx,        \* index of the spec the creation loop is at
    creates,    \* indices of the specs workflow::create was called for, in call order
    created,    \* worktree/window pairs materialized, in creation order
    nm,         \* the inputs of a derive_handle call and what it returned
    opens,      \* the workflow::open calls of this process, in call order
    ls,         \* the environment of a workflow::list call and what it returned
    st          \* a tmux window's status option and focus hook, and the last event on it

removeVars == <<listing, canon, dirty, branches, windows, world0, call, cmd>>
addVars == <<req, specs, idx, creates, created>>
namingVars == <<nm>>
openVars == <<opens>>
listVars == <<ls>>
statusVars == <<st>>
vars == <<listing, canon, dirty, branches, windows, world0, pc, call, cmd, result, trace,
          req, specs, idx, creates, created, nm, opens, ls, st>>

----------------------------------------------------------------------------
(* Values *)

NoPath == <<"<unresolvable>">>
NoName == "<none>"
Detached == "(detached)"
Bare == "<bare>"

RepoPath == <<"repo">>
PathA == <<"wt", "feat">>
PathB == <<"wt", "fx">>
AllPaths == {RepoPath, PathA, PathB}

BranchNames == {"main", "feat", "fix"}
InputNames == BranchNames \cup {"fx"}

\* context.main_branch: from the configuration, or git's default branch
MainBranch == "main"

Range(s) == {s[i] : i \in 1..Len(s)}

\* no list call, and no status window, in this behaviour
NoList == [state |-> "none"]
NoStatus == [state |-> "none"]

----------------------------------------------------------------------------
(* git.rs *)

\* parse_worktree_list_porcelain: a block is kept only when it has a worktree
\* line and a branch line or a detached line
parse_worktree_list_porcelain(blocks) ==
    SelectSeq(blocks, LAMBDA b : b.head # Bare)

\* get_main_worktree_root: the first parsed entry
get_main_worktree_root(blocks) ==
    LET wts == parse_worktree_list_porcelain(blocks)
    IN  IF wts # <<>> THEN wts[1].path ELSE NoPath

\* get_worktree_path: the first parsed entry whose branch is branch_name
get_worktree_path(blocks, branch_name) ==
    LET wts == parse_worktree_list_porcelain(blocks)
        hit == {i \in 1..Len(wts) : wts[i].head = branch_name}
    IN  IF hit = {} THEN NoPath
        ELSE wts[CHOOSE i \in hit : \A j \in hit : i <= j].path

\* has_uncommitted_changes, when the status command itself succeeds
has_uncommitted_changes(path) == canon[path] \in dirty

\* Path::exists follows symlinks, as canonicalize does
path_exists(path) == canon[path] # NoPath

\* Path::file_name
file_name(path) == IF path = <<>> THEN NoName ELSE path[Len(path)]

----------------------------------------------------------------------------
(* workflow/remove.rs *)

\* WorkflowContext::new: main_worktree_root is git::get_main_worktree_root(),
\* main_branch comes from the configuration or git's default branch
WorkflowContext_new ==
    [main_worktree_root |-> get_main_worktree_root(listing), main_branch |-> MainBranch]

NoCall ==
    [active |-> FALSE, branch_name |-> NoName, force |-> FALSE, delete_remote |-> FALSE,
     keep_branch |-> FALSE, worktree_path |-> NoPath, handle |-> NoName,
     main_worktree_root |-> NoPath, main_branch |-> NoName, status_query |-> "not_run"]

\* a comparison of the raw paths alone
is_main_worktree_raw_only(worktree_path, main_worktree_root) ==
    worktree_path = main_worktree_root

\* the Safety Check without its fallback to the raw paths
is_main_worktree_canonical_only(worktree_path, main_worktree_root) ==
    /\ canon[worktree_path] # NoPath
    /\ canon[main_worktree_root] # NoPath
    /\ canon[worktree_path] = canon[main_worktree_root]

\* the Safety Check of remove: canonical paths when both resolve, raw paths otherwise
is_main_worktree(worktree_path, main_worktree_root) ==
    IF canon[worktree_path] # NoPath /\ canon[main_worktree_root] # NoPath
    THEN canon[worktree_path] = canon[main_worktree_root]
    ELSE worktree_path = main_worktree_root

\* the secondary check left out
is_main_branch_unchecked(branch_name, main_branch) == FALSE

\* the secondary Safety Check: the main branch by name
is_main_branch(branch_name, main_branch) == branch_name = main_branch

\* the gate without `&& !force`
dirty_gate_ignores_force(worktree_path, force, status_ok) ==
    IF ~path_exists(worktree_path) THEN "pass"
    ELSE IF ~status_ok THEN "StatusFailed"
    ELSE IF has_uncommitted_changes(worktree_path) THEN "DirtyWorktree"
    ELSE "pass"

\* `worktree_path.exists() && git::has_uncommitted_changes(&worktree_path)? && !force`
\* status_ok: whether the `git status` subprocess succeeded
dirty_gate(worktree_path, force, status_ok) ==
    IF ~path_exists(worktree_path) THEN "pass"
    ELSE IF ~status_ok THEN "StatusFailed"
    ELSE IF has_uncommitted_changes(worktree_path) /\ ~force THEN "DirtyWorktree"
    ELSE "pass"

\* remove, from its entry to the call of cleanup::cleanup: the error it
\* returns, or "pass" when it goes on to cleanup
remove_checks(branch_name, force, ctx, status_ok) ==
    LET worktree_path == get_worktree_path(listing, branch_name)
    IN  IF worktree_path = NoPath THEN "NotFound"
        ELSE IF file_name(worktree_path) = NoName THEN "NoHandle"
        ELSE IF is_main_worktree(worktree_path, ctx.main_worktree_root) THEN "ProtectedMainWorktree"
        ELSE IF is_main_branch(branch_name, ctx.main_branch) THEN "ProtectedMainBranch"
        ELSE dirty_gate(worktree_path, force, status_ok)

\* the entry of workflow::remove, up to the point where cleanup is called
remove_enter(branch_name, force, delete_remote, keep_branch, status_ok) ==
    LET ctx == WorkflowContext_new
        worktree_path == get_worktree_path(listing, branch_name)
        verdict == remove_checks(branch_name, force, ctx, status_ok)
    IN  /\ call' = [active |-> TRUE, branch_name |-> branch_name, force |-> force,
                    delete_remote |-> delete_remote, keep_branch |-> keep_branch,
                    worktree_path |-> worktree_path,
                    handle |-> IF worktree_path = NoPath THEN NoName ELSE file_name(worktree_path),
                    main_worktree_root |-> ctx.main_worktree_root,
                    main_branch |-> ctx.main_branch,
                    status_query |->
                        IF verdict \in {"NotFound", "NoHandle", "ProtectedMainWorktree",
                                        "ProtectedMainBranch"}
                           \/ ~path_exists(worktree_path)
                        THEN "not_run"
                        ELSE IF status_ok THEN "ok" ELSE "failed"]
        /\ IF verdict = "pass"
           THEN pc' = "cleanup" /\ result' = result
           ELSE pc' = "done" /\ result' = verdict

\* workflow::remove called directly (by a test, or by another command)
WorkflowRemove ==
    /\ pc = "idle"
    /\ get_main_worktree_root(listing) # NoPath
    /\ \E branch_name \in InputNames, force \in BOOLEAN, delete_remote \in BOOLEAN,
          keep_branch \in BOOLEAN, status_ok \in BOOLEAN :
          remove_enter(branch_name, force, delete_remote, keep_branch, status_ok)
    /\ trace' = Append(trace, "remove:start")
    /\ UNCHANGED <<listing, canon, dirty, branches, windows, world0, cmd, addVars, namingVars, openVars, listVars, statusVars>>

\* cleanup::cleanup, the version-control side of the teardown: the worktree
\* directory and its registration are removed and, unless keep_branch, the
\* branch is deleted.  outcome: "ok"; "failed" before anything changed;
\* "branch_failed" when the worktree is gone and the branch deletion failed
cleanup(outcome) ==
    LET gone == outcome \in {"ok", "branch_failed"}
    IN  /\ listing' = IF gone
                      THEN SelectSeq(listing, LAMBDA b : b.path # call.worktree_path)
                      ELSE listing
        /\ canon' = IF gone THEN [canon EXCEPT ![call.worktree_path] = NoPath] ELSE canon
        /\ branches' = IF outcome = "ok" /\ ~call.keep_branch
                       THEN branches \ {call.branch_name}
                       ELSE branches
        /\ UNCHANGED <<dirty, windows>>

\* cleanup::navigate_to_main_and_close: the window of the handle is closed
navigate_to_main_and_close(ok) ==
    /\ windows' = IF ok THEN windows \ {call.handle} ELSE windows
    /\ UNCHANGED <<listing, canon, dirty, branches>>

\* the call of cleanup without the `?`: its error is dropped
RemoveCleanup_error_dropped ==
    /\ pc = "cleanup"
    /\ \E outcome \in {"ok", "failed"} \cup (IF call.keep_branch THEN {} ELSE {"branch_failed"}) :
          /\ cleanup(outcome)
          /\ trace' = trace \o <<"cleanup:call", IF outcome = "ok" THEN "cleanup:ok" ELSE "cleanup:err">>
    /\ pc' = "close"
    /\ UNCHANGED <<world0, call, cmd, result, addVars, namingVars, openVars, listVars, statusVars>>

\* remove: `cleanup::cleanup(...)?`
RemoveCleanup ==
    /\ pc = "cleanup"
    /\ \E outcome \in {"ok", "failed"} \cup (IF call.keep_branch THEN {} ELSE {"branch_failed"}) :
          /\ cleanup(outcome)
          /\ trace' = trace \o <<"cleanup:call", IF outcome = "ok" THEN "cleanup:ok" ELSE "cleanup:err">>
          /\ IF outcome = "ok"
             THEN pc' = "close" /\ result' = result
             ELSE pc' = "done" /\ result' = "CleanupFailed"
    /\ UNCHANGED <<world0, call, cmd, addVars, namingVars, openVars, listVars, statusVars>>

\* remove: `cleanup::navigate_to_main_and_close(...)?` and the Ok it returns
RemoveClose ==
    /\ pc = "close"
    /\ \E ok \in BOOLEAN :
          /\ navigate_to_main_and_close(ok)
          /\ trace' = trace \o <<"close:call", IF ok THEN "close:ok" ELSE "close:err">>
          /\ result' = IF ok THEN "Ok" ELSE "CloseFailed"
    /\ pc' = "done"
    /\ UNCHANGED <<world0, call, cmd, addVars, namingVars, openVars, listVars, statusVars>>

----------------------------------------------------------------------------
(* command/remove.rs *)

Whitespace == {" ", "\n", "\t", "\r"}

\* str::trim
RECURSIVE TrimStart(_)
TrimStart(s) ==
    IF s # <<>> /\ Head(s) \in Whitespace THEN TrimStart(Tail(s)) ELSE s

RECURSIVE TrimEnd(_)
TrimEnd(s) ==
    IF s # <<>> /\ s[Len(s)] \in Whitespace THEN TrimEnd(SubSeq(s, 1, Len(s) - 1)) ELSE s

Trim(s) == TrimEnd(TrimStart(s))

\* str::to_lowercase, on the letters the model's inputs use
LowerChar(c) ==
    CASE c = "Y" -> "y"
      [] c = "N" -> "n"
      [] c = "E" -> "e"
      [] c = "S" -> "s"
      [] OTHER -> c

ToLowercase(s) == [i \in 1..Len(s) |-> LowerChar(s[i])]

\* what read_line can deliver: a line, or an I/O error
ReadFailed == <<"<io error>">>
Answers ==
    {<<"y", "\n">>, <<" ", "Y", "\n">>, <<"n", "\n">>, <<"\n">>, <<"y", "e", "s", "\n">>,
     ReadFailed}

NoCmd ==
    [active |-> FALSE, input_name |-> NoName, force |-> FALSE, keep_branch |-> FALSE,
     worktree_path |-> NoPath, branch_name |-> NoName, handle |-> NoName,
     uncommitted_checked |-> FALSE, unmerged_checked |-> FALSE, has_unmerged |-> FALSE,
     prompted |-> FALSE, answer |-> <<>>, aborted |-> FALSE, effective_force |-> FALSE]

\* git::find_worktree ("smart resolution: try handle first, then branch name")
find_worktree(blocks, name) ==
    LET wts == parse_worktree_list_porcelain(blocks)
        byHandle == {i \in 1..Len(wts) : file_name(wts[i].path) = name}
        byBranch == {i \in 1..Len(wts) : wts[i].head = name}
        first(S) == CHOOSE i \in S : \A j \in S : i <= j
    IN  IF byHandle # {} THEN wts[first(byHandle)]
        ELSE IF byBranch # {} THEN wts[first(byBranch)]
        ELSE [path |-> NoPath, head |-> NoName]

\* a confirmation that accepts every answer starting with y
prompt_unmerged_confirmation_prefix(answer) ==
    IF answer = ReadFailed THEN "Err"
    ELSE IF Trim(answer) # <<>> /\ LowerChar(Head(Trim(answer))) = "y" THEN "Confirmed"
    ELSE "Aborted"

\* prompt_unmerged_confirmation: the choice made from the line read
prompt_unmerged_confirmation(answer) ==
    IF answer = ReadFailed THEN "Err"
    ELSE IF ToLowercase(Trim(answer)) = <<"y">> THEN "Confirmed"
    ELSE "Aborted"

\* check_uncommitted_changes
check_uncommitted_changes(worktree_path, status_ok) ==
    IF ~path_exists(worktree_path) THEN "Ok"
    ELSE IF ~status_ok THEN "StatusFailed"
    ELSE IF has_uncommitted_changes(worktree_path) THEN "DirtyWorktree"
    ELSE "Ok"

\* the git queries of check_unmerged_commits: whether the merge base of the
\* stored base resolved, whether the fallback to the default branch resolved,
\* and what get_unmerged_branches said about the branch
UnmergedQueries ==
    [merge_base_ok : BOOLEAN, fallback_ok : BOOLEAN, unmerged : {"err", "yes", "no"}]

\* check_unmerged_commits: "Err", "NotNeeded", or "Prompt" when the user is asked
check_unmerged_commits(q) ==
    IF ~q.merge_base_ok /\ ~q.fallback_ok THEN "Err"
    ELSE IF q.unmerged = "err" THEN "Err"
    ELSE IF q.unmerged = "yes" THEN "Prompt"
    ELSE "NotNeeded"

\* the unmerged-commits check, and its prompt, run before the uncommitted-changes check
validate_removal_safety_unmerged_first(worktree_path, force, keep_branch, status_ok, q, answer) ==
    LET base == [verdict |-> "proceed", force_flag |-> FALSE, uncommitted_checked |-> FALSE,
                 unmerged_checked |-> FALSE, has_unmerged |-> FALSE, prompted |-> FALSE]
        uncommitted == check_uncommitted_changes(worktree_path, status_ok)
        unmerged == check_unmerged_commits(q)
        choice == prompt_unmerged_confirmation(answer)
        asked == ~keep_branch /\ unmerged = "Prompt"
        seen == [base EXCEPT !.unmerged_checked = ~keep_branch, !.has_unmerged = asked,
                             !.prompted = asked]
    IN  IF force THEN [base EXCEPT !.force_flag = TRUE]
        ELSE IF ~keep_branch /\ unmerged = "Err"
        THEN [seen EXCEPT !.verdict = "UnmergedCheckFailed"]
        ELSE IF asked /\ choice = "Aborted" THEN [seen EXCEPT !.verdict = "aborted"]
        ELSE IF asked /\ choice = "Err" THEN [seen EXCEPT !.verdict = "PromptFailed"]
        ELSE IF uncommitted # "Ok"
        THEN [seen EXCEPT !.verdict = uncommitted, !.uncommitted_checked = TRUE]
        ELSE [seen EXCEPT !.uncommitted_checked = TRUE, !.force_flag = asked]

\* the unmerged-commits check run whatever keep_branch is
validate_removal_safety_keep_branch_checked(worktree_path, force, keep_branch, status_ok, q, answer) ==
    LET base == [verdict |-> "proceed", force_flag |-> FALSE, uncommitted_checked |-> FALSE,
                 unmerged_checked |-> FALSE, has_unmerged |-> FALSE, prompted |-> FALSE]
        uncommitted == check_uncommitted_changes(worktree_path, status_ok)
        unmerged == check_unmerged_commits(q)
        choice == prompt_unmerged_confirmation(answer)
    IN  IF force THEN [base EXCEPT !.force_flag = TRUE]
        ELSE IF uncommitted # "Ok"
        THEN [base EXCEPT !.verdict = uncommitted, !.uncommitted_checked = TRUE]
        ELSE IF unmerged = "Err"
        THEN [base EXCEPT !.verdict = "UnmergedCheckFailed", !.uncommitted_checked = TRUE,
                          !.unmerged_checked = TRUE]
        ELSE IF unmerged = "NotNeeded"
        THEN [base EXCEPT !.uncommitted_checked = TRUE, !.unmerged_checked = TRUE]
        ELSE [base EXCEPT !.uncommitted_checked = TRUE, !.unmerged_checked = TRUE,
                          !.has_unmerged = TRUE, !.prompted = TRUE,
                          !.verdict = CASE choice = "Confirmed" -> "proceed"
                                        [] choice = "Aborted" -> "aborted"
                                        [] OTHER -> "PromptFailed",
                          !.force_flag = (choice = "Confirmed")]

\* validate_removal_safety: [verdict, force_flag, ...] with verdict "proceed",
\* "aborted" or an error
validate_removal_safety(worktree_path, force, keep_branch, status_ok, q, answer) ==
    LET base == [verdict |-> "proceed", force_flag |-> FALSE, uncommitted_checked |-> FALSE,
                 unmerged_checked |-> FALSE, has_unmerged |-> FALSE, prompted |-> FALSE]
        uncommitted == check_uncommitted_changes(worktree_path, status_ok)
        unmerged == check_unmerged_commits(q)
        choice == prompt_unmerged_confirmation(answer)
    IN  IF force THEN [base EXCEPT !.force_flag = TRUE]
        ELSE IF uncommitted # "Ok"
        THEN [base EXCEPT !.verdict = uncommitted, !.uncommitted_checked = TRUE]
        ELSE IF keep_branch THEN [base EXCEPT !.uncommitted_checked = TRUE]
        ELSE IF unmerged = "Err"
        THEN [base EXCEPT !.verdict = "UnmergedCheckFailed", !.uncommitted_checked = TRUE,
                          !.unmerged_checked = TRUE]
        ELSE IF unmerged = "NotNeeded"
        THEN [base EXCEPT !.uncommitted_checked = TRUE, !.unmerged_checked = TRUE]
        ELSE [base EXCEPT !.uncommitted_checked = TRUE, !.unmerged_checked = TRUE,
                          !.has_unmerged = TRUE, !.prompted = TRUE,
                          !.verdict = CASE choice = "Confirmed" -> "proceed"
                                        [] choice = "Aborted" -> "aborted"
                                        [] OTHER -> "PromptFailed",
                          !.force_flag = (choice = "Confirmed")]

\* what the environment holds for the command: the outcome of git status (for
\* a directory that exists), the state of the branch, and the line the user
\* would type if asked; a forced removal looks at none of them
StatusOutcomes(worktree_path, force) ==
    IF ~force /\ path_exists(worktree_path) THEN BOOLEAN ELSE {TRUE}

QueryOutcomes(worktree_path, force, keep_branch, status_ok) ==
    IF ~force
    THEN UnmergedQueries
    ELSE {[merge_base_ok |-> TRUE, fallback_ok |-> TRUE, unmerged |-> "no"]}

AnswerOutcomes(worktree_path, force, keep_branch, status_ok, q) ==
    IF ~force /\ check_unmerged_commits(q) = "Prompt"
    THEN Answers
    ELSE {<<>>}

\* run, up to `None => return Ok(())`: the name is resolved, the worktree is
\* found and the removal is validated (the user may be asked)
RemoveCommandValidate ==
    /\ pc = "idle"
    /\ \E input_name \in InputNames \cup {NoName}, force \in BOOLEAN, keep_branch \in BOOLEAN :
          LET found == find_worktree(listing, input_name)
              handle == file_name(found.path)
          IN  IF input_name = NoName
              THEN /\ cmd' = [NoCmd EXCEPT !.active = TRUE, !.force = force,
                                           !.keep_branch = keep_branch]
                   /\ pc' = "done" /\ result' = "NameUnresolved" /\ trace' = trace
              ELSE IF found.path = NoPath
              THEN /\ cmd' = [NoCmd EXCEPT !.active = TRUE, !.input_name = input_name,
                                           !.force = force, !.keep_branch = keep_branch]
                   /\ pc' = "done" /\ result' = "NotFound" /\ trace' = trace
              ELSE \E status_ok \in StatusOutcomes(found.path, force) :
                   \E q \in QueryOutcomes(found.path, force, keep_branch, status_ok) :
                   \E answer \in AnswerOutcomes(found.path, force, keep_branch, status_ok, q) :
                      LET v == validate_removal_safety(found.path, force, keep_branch,
                                                       status_ok, q, answer)
                      IN  /\ cmd' = [active |-> TRUE, input_name |-> input_name,
                                     force |-> force, keep_branch |-> keep_branch,
                                     worktree_path |-> found.path, branch_name |-> found.head,
                                     handle |-> handle,
                                     uncommitted_checked |-> v.uncommitted_checked,
                                     unmerged_checked |-> v.unmerged_checked,
                                     has_unmerged |-> v.has_unmerged,
                                     prompted |-> v.prompted,
                                     answer |-> IF v.prompted THEN answer ELSE <<>>,
                                     aborted |-> (v.verdict = "aborted"),
                                     effective_force |-> v.force_flag]
                          /\ trace' = IF v.prompted THEN Append(trace, "prompt") ELSE trace
                          /\ IF v.verdict = "proceed"
                             THEN pc' = "invoke" /\ result' = result
                             ELSE IF v.verdict = "aborted"
                             THEN pc' = "done" /\ result' = "Ok"
                             ELSE pc' = "done" /\ result' = v.verdict
    /\ UNCHANGED <<listing, canon, dirty, branches, windows, world0, call, addVars, namingVars, openVars, listVars, statusVars>>

\* run, from Config::load to the call of workflow::remove: the context is
\* built, the pre-delete hooks are announced and workflow::remove is entered
\* with the handle as its first argument (run names no delete_remote: either value)
RemoveCommandInvoke ==
    /\ pc = "invoke"
    /\ \E context_ok \in BOOLEAN :
          IF ~context_ok \/ get_main_worktree_root(listing) = NoPath
          THEN /\ pc' = "done" /\ result' = "ContextFailed"
               /\ UNCHANGED <<call, trace>>
          ELSE /\ \E delete_remote \in BOOLEAN, status_ok \in BOOLEAN :
                     remove_enter(cmd.handle, cmd.effective_force, delete_remote,
                                  cmd.keep_branch, status_ok)
               /\ trace' = trace \o <<"announce:pre_delete", "remove:start">>
    /\ UNCHANGED <<listing, canon, dirty, branches, windows, world0, cmd, addVars, namingVars, openVars, listVars, statusVars>>

----------------------------------------------------------------------------
(* naming.rs *)

NoStr == <<"<none>">>

Alphanumeric == {"a", "b", "f", "n", "x", "y", "w", "N", "1", "2", "3", "4"}

\* slug::slugify: ASCII letters and digits are kept in lower case, every other
\* character becomes a '-', runs of '-' collapse, and no '-' starts or ends the slug
RECURSIVE SlugChars(_, _)
SlugChars(s, prev_is_dash) ==
    IF s = <<>> THEN <<>>
    ELSE IF Head(s) \in Alphanumeric
    THEN <<LowerChar(Head(s))>> \o SlugChars(Tail(s), FALSE)
    ELSE IF prev_is_dash THEN SlugChars(Tail(s), TRUE)
    ELSE <<"-">> \o SlugChars(Tail(s), TRUE)

slugify(s) ==
    LET t == SlugChars(s, TRUE)
    IN  IF t # <<>> /\ t[Len(t)] = "-" THEN SubSeq(t, 1, Len(t) - 1) ELSE t

\* WorktreeNaming::derive_name: Full keeps the branch name, Basename keeps the
\* last non-empty '/'-separated segment
RECURSIVE LastSegment(_)
LastSegment(s) ==
    IF s = <<>> THEN <<>>
    ELSE IF s[Len(s)] = "/" THEN <<>>
    ELSE Append(LastSegment(SubSeq(s, 1, Len(s) - 1)), s[Len(s)])

RECURSIVE StripTrailingSlashes(_)
StripTrailingSlashes(s) ==
    IF s # <<>> /\ s[Len(s)] = "/" THEN StripTrailingSlashes(SubSeq(s, 1, Len(s) - 1)) ELSE s

derive_name(worktree_naming, branch_name) ==
    IF worktree_naming = "Basename"
    THEN LastSegment(StripTrailingSlashes(branch_name))
    ELSE branch_name

\* str::contains("..")
ContainsDotDot(s) == \E i \in 1..(Len(s) - 1) : s[i] = "." /\ s[i + 1] = "."

\* validate_handle without its first test
validate_handle_empty_allowed(handle) ==
    IF ContainsDotDot(handle) \/ (handle # <<>> /\ Head(handle) = "/")
    THEN "Handle cannot contain path traversal"
    ELSE IF \E i \in 1..Len(handle) : handle[i] \in Whitespace THEN "Handle cannot contain whitespace"
    ELSE "Ok"

\* validate_handle
validate_handle(handle) ==
    IF handle = <<>> THEN "Handle cannot be empty"
    ELSE IF ContainsDotDot(handle) \/ Head(handle) = "/" THEN "Handle cannot contain path traversal"
    ELSE IF \E i \in 1..Len(handle) : handle[i] \in Whitespace THEN "Handle cannot contain whitespace"
    ELSE "Ok"

\* the strategy left out: the branch name as it is
strategy_name_full(config, branch_name) == branch_name

\* derive_handle: `config.worktree_naming.derive_name(branch_name)`
strategy_name(config, branch_name) == derive_name(config.worktree_naming, branch_name)

\* the prefix put in front of the explicit name too
derived_handle_prefixed_name(branch_name, explicit_name, config) ==
    LET derived == IF explicit_name # NoStr THEN explicit_name
                   ELSE strategy_name(config, branch_name)
        with_prefix == IF config.worktree_prefix # NoStr
                       THEN config.worktree_prefix \o derived
                       ELSE derived
    IN  slugify(with_prefix)

\* the prefix put in front of the branch name before the strategy cuts it
derived_handle_prefix_first(branch_name, explicit_name, config) ==
    IF explicit_name # NoStr THEN slugify(explicit_name)
    ELSE LET with_prefix == IF config.worktree_prefix # NoStr
                            THEN config.worktree_prefix \o branch_name
                            ELSE branch_name
         IN  slugify(strategy_name(config, with_prefix))

\* derive_handle, before validation
derived_handle(branch_name, explicit_name, config) ==
    IF explicit_name # NoStr THEN slugify(explicit_name)
    ELSE LET derived == strategy_name(config, branch_name)
             with_prefix == IF config.worktree_prefix # NoStr
                            THEN config.worktree_prefix \o derived
                            ELSE derived
         IN  slugify(with_prefix)

\* the handle returned without validation
derive_handle_unvalidated(branch_name, explicit_name, config) ==
    derived_handle(branch_name, explicit_name, config)

\* derive_handle: the handle, or NoStr for the error validate_handle raises
derive_handle(branch_name, explicit_name, config) ==
    LET handle == derived_handle(branch_name, explicit_name, config)
    IN  IF validate_handle(handle) = "Ok" THEN handle ELSE NoStr

DefaultConfig == [worktree_naming |-> "Full", worktree_prefix |-> NoStr]

NoNaming ==
    [state |-> "none", branch_name |-> <<>>, explicit_name |-> NoStr, config |-> DefaultConfig,
     derived_name |-> NoStr, handle |-> NoStr, error |-> "none"]

\* a call of derive_handle on the inputs chosen at the start
DeriveHandle ==
    /\ nm.state = "input"
    /\ nm' = [nm EXCEPT !.state = "derived",
                        !.handle = derive_handle(nm.branch_name, nm.explicit_name, nm.config),
                        !.error = validate_handle(derived_handle(nm.branch_name,
                                                                 nm.explicit_name, nm.config))]
    /\ UNCHANGED <<listing, canon, dirty, branches, windows, world0, pc, call, cmd, result,
                   trace, addVars, openVars, listVars, statusVars>>

\* the naming strategy of the configuration applied to the branch name, as
\* derive_handle applies it
DeriveName ==
    /\ nm.state = "input"
    /\ nm' = [nm EXCEPT !.state = "named",
                        !.derived_name = strategy_name(nm.config, nm.branch_name)]
    /\ UNCHANGED <<listing, canon, dirty, branches, windows, world0, pc, call, cmd, result,
                   trace, addVars, openVars, listVars, statusVars>>

----------------------------------------------------------------------------
(* command/add.rs *)

MaxAgents == 2
MaxCount == 3

NoCount == -1
NoRows == <<<<"<no matrix>">>>>
BadRows == <<<<"<unparsable matrix>">>>>

Agents == {<<"a">>, <<"b">>}
BaseBranch == <<"f">>

SeqsUpTo(S, n) == UNION {[1..k -> S] : k \in 0..n}

\* a row of a matrix, by the value of its one variable
RowMatrices == {<<<<"x">>>>, <<<<"x">>, <<"y">>>>, <<<<"x">>, <<"!">>>>}

\* what --foreach, and the frontmatter's foreach, can hold
MatrixInputs == {NoRows, BadRows} \cup RowMatrices

Requests ==
    [name : {NoStr, <<"N">>, <<"!">>},
     agent : SeqsUpTo(Agents, MaxAgents),
     count : {NoCount} \cup 0..MaxCount,
     foreach : MatrixInputs,
     frontmatter_foreach : MatrixInputs,
     has_prompt : BOOLEAN,
     row_template : BOOLEAN,
     with_changes : BOOLEAN]

NoReq ==
    [active |-> FALSE, name |-> NoStr, agent |-> <<>>, count |-> NoCount, foreach |-> NoRows,
     frontmatter_foreach |-> NoRows, has_prompt |-> FALSE, row_template |-> FALSE,
     with_changes |-> FALSE]

Activate(r) ==
    [active |-> TRUE, name |-> r.name, agent |-> r.agent, count |-> r.count,
     foreach |-> r.foreach, frontmatter_foreach |-> r.frontmatter_foreach,
     has_prompt |-> r.has_prompt, row_template |-> r.row_template,
     with_changes |-> r.with_changes]

NumStr(n) == CASE n = 1 -> <<"1">> [] n = 2 -> <<"2">> [] n = 3 -> <<"3">> [] OTHER -> <<"4">>

\* run: `rescue.with_changes && multi.agent.len() > 1`
with_changes_conflict(r) == r.with_changes /\ Len(r.agent) > 1

\* run: has_multi_worktree
has_multi_worktree(r) ==
    Len(r.agent) > 1 \/ (r.count # NoCount /\ r.count > 1) \/ r.foreach # NoRows

\* run: `name.is_some() && has_multi_worktree`
name_conflict(r) == r.name # NoStr /\ has_multi_worktree(r)

\* the rule left out
count_agent_conflict_dropped(r) == FALSE

\* run: `multi.count.is_some() && multi.agent.len() > 1`
count_agent_conflict(r) == r.count # NoCount /\ Len(r.agent) > 1

\* the frontmatter is there only when a prompt document was loaded
prompt_foreach(r) == IF r.has_prompt THEN r.frontmatter_foreach ELSE NoRows

\* run: has_foreach_in_prompt
has_foreach_in_prompt(r) == prompt_foreach(r) # NoRows

\* run: `has_foreach_in_prompt && !multi.agent.is_empty()`
foreach_agent_conflict(r) == has_foreach_in_prompt(r) /\ r.agent # <<>>

\* a command-line matrix that does not parse gives way to the frontmatter's
determine_foreach_matrix_fallback(r) ==
    IF r.foreach \notin {NoRows, BadRows} THEN r.foreach
    ELSE IF prompt_foreach(r) # NoRows THEN prompt_foreach(r)
    ELSE r.foreach

\* determine_foreach_matrix: the warning printed when both sources are there
foreach_override_warning(r) == r.foreach # NoRows /\ prompt_foreach(r) # NoRows

\* determine_foreach_matrix: NoRows, the rows, or BadRows for a parse error
determine_foreach_matrix(r) ==
    IF r.foreach # NoRows THEN r.foreach
    ELSE IF prompt_foreach(r) # NoRows THEN prompt_foreach(r)
    ELSE NoRows

\* only the first agent handed over
generate_args_first_agent(r, rows) ==
    [base_name |-> BaseBranch, agents |-> IF r.agent = <<>> THEN <<>> ELSE <<r.agent[1]>>,
     count |-> r.count, rows |-> rows, row_template |-> r.row_template]

\* the arguments run hands to generate_worktree_specs
generate_args(r, rows) ==
    [base_name |-> BaseBranch, agents |-> r.agent, count |-> r.count, rows |-> rows,
     row_template |-> r.row_template]

\* template::generate_worktree_specs: one spec per row when there is a matrix,
\* else count specs, else one per agent in input order, else one spec for the
\* base branch name
generate_worktree_specs(a) ==
    IF a.rows # NoRows
    THEN [i \in 1..Len(a.rows) |->
            [branch_name |-> IF a.row_template THEN a.rows[i]
                             ELSE a.base_name \o <<"-">> \o a.rows[i],
             agent |-> NoStr]]
    ELSE IF a.count # NoCount
    THEN [i \in 1..a.count |->
            [branch_name |-> a.base_name \o <<"-">> \o NumStr(i),
             agent |-> IF a.agents = <<>> THEN NoStr ELSE a.agents[1]]]
    ELSE IF Len(a.agents) > 1
    THEN [i \in 1..Len(a.agents) |->
            [branch_name |-> a.base_name \o <<"-">> \o a.agents[i], agent |-> a.agents[i]]]
    ELSE <<[branch_name |-> a.base_name,
            agent |-> IF a.agents = <<>> THEN NoStr ELSE a.agents[1]]>>

\* the check left out
specs_is_empty_unchecked(generated) == FALSE

\* run: `specs.is_empty()`
specs_is_empty(generated) == generated = <<>>

\* run, up to the --name validation: the branch name is determined and the
\* flags that exclude each other are rejected
AddStart ==
    /\ pc = "idle"
    /\ \E r \in Requests, branch_ok \in BOOLEAN :
          /\ req' = Activate(r)
          /\ IF ~branch_ok THEN pc' = "done" /\ result' = "BranchNameFailed"
             ELSE IF with_changes_conflict(r) THEN pc' = "done" /\ result' = "WithChangesMultiAgent"
             ELSE IF name_conflict(r) THEN pc' = "done" /\ result' = "NameWithMultiWorktree"
             ELSE IF r.with_changes THEN pc' = "rescue" /\ result' = result
             ELSE pc' = "expand" /\ result' = result
    /\ trace' = Append(trace, "add:start")
    /\ UNCHANGED <<removeVars, namingVars, openVars, listVars, statusVars, specs, idx, creates, created>>

\* the worktree the command runs in, whose changes --with-changes moves
SourceWorktree == RepoPath

\* workflow::create_with_changes: whether a worktree, branch and window are
\* created; with nothing to move nothing is created
create_with_changes(has_changes, ok) == ok /\ has_changes

\* handle_rescue_flow: what the caller is told, from the Result of
\* create_with_changes: the error with its context, or the "Moved" line and Ok(true)
handle_rescue_flow(ok) == IF ok THEN "moved" ELSE "error"

\* run going on to the normal flow after the rescue
rescue_returns_never(told) == FALSE

\* run: `if handle_rescue_flow(...)? { return Ok(()); }`: run returns when
\* the rescue was handled, and with the error when it failed
rescue_returns(told) == told \in {"moved", "error"}

\* run, the rescue flow: the configuration and the context are loaded, the
\* handle is derived, and run returns with what handle_rescue_flow returned
AddRescue ==
    /\ pc = "rescue"
    /\ \E outcome \in {"context_failed", "ok", "err"} :
          LET handle == derive_handle(BaseBranch, req.name, DefaultConfig)
              has_changes == has_uncommitted_changes(SourceWorktree)
              told == handle_rescue_flow(outcome = "ok")
              before == IF outcome = "context_failed" THEN "ContextFailed"
                        ELSE IF handle = NoStr THEN "InvalidHandle"
                        ELSE "Ok"
          IN  /\ IF before # "Ok"
                 THEN /\ result' = before /\ UNCHANGED <<trace, created>>
                 ELSE /\ trace' = trace \o <<"create_with_changes">>
                                      \o (IF told = "moved" THEN <<"print:moved">> ELSE <<>>)
                      /\ created' = IF create_with_changes(has_changes, outcome = "ok")
                                    THEN Append(created, [branch_name |-> BaseBranch,
                                                          handle |-> handle])
                                    ELSE created
                      /\ result' = IF told = "moved" THEN "Ok" ELSE "RescueFailed"
              /\ pc' = IF before # "Ok" \/ rescue_returns(told) THEN "done" ELSE "expand"
    /\ UNCHANGED <<removeVars, namingVars, openVars, listVars, statusVars, req, specs, idx, creates>>

\* run, from the loading of the prompt to the check of the generated specs
AddExpand ==
    /\ pc = "expand"
    /\ \E prompt_ok \in BOOLEAN, remote_ok \in BOOLEAN, render_ok \in BOOLEAN :
          LET rows == determine_foreach_matrix(req)
              generated == generate_worktree_specs(generate_args(req, rows))
              verdict ==
                  IF ~prompt_ok THEN "PromptFailed"
                  ELSE IF count_agent_conflict(req) THEN "CountWithAgents"
                  ELSE IF foreach_agent_conflict(req) THEN "ForeachWithAgents"
                  ELSE IF ~remote_ok THEN "RemoteDetectionFailed"
                  ELSE IF rows = BadRows THEN "ForeachParseFailed"
                  ELSE IF ~render_ok THEN "BranchTemplateFailed"
                  ELSE IF specs_is_empty(generated) THEN "NoSpecs"
                  ELSE "Ok"
              reached(v) == verdict \notin v
              determined == reached({"PromptFailed", "CountWithAgents", "ForeachWithAgents",
                                     "RemoteDetectionFailed"})
          IN  /\ trace' = trace
                    \o (IF reached({"PromptFailed", "CountWithAgents"})
                        THEN <<"rule:foreach_agents">> ELSE <<>>)
                    \o (IF determined THEN <<"matrix:determine">> ELSE <<>>)
                    \o (IF determined /\ foreach_override_warning(req)
                        THEN <<"warn:foreach_override">> ELSE <<>>)
                    \o (IF verdict \in {"NoSpecs", "Ok"} THEN <<"generate">> ELSE <<>>)
              /\ IF verdict = "Ok" /\ generated # <<>>
                 THEN pc' = "loop" /\ specs' = generated /\ idx' = 1 /\ result' = result
                 ELSE IF verdict = "Ok"
                 \* create_worktrees_from_specs over no spec: the loop body never runs
                 THEN pc' = "done" /\ specs' = generated /\ idx' = idx /\ result' = "Ok"
                 ELSE /\ pc' = "done" /\ result' = verdict /\ idx' = idx
                      /\ specs' = IF verdict = "NoSpecs" THEN generated ELSE specs
    /\ UNCHANGED <<removeVars, namingVars, openVars, listVars, statusVars, req, creates, created>>

CreatedHandles == {created[i].handle : i \in 1..Len(created)}

\* a loop that goes on to the next spec after a failure
AddCreateSpec_keeps_going ==
    /\ pc = "loop"
    /\ \E outcome \in {"create_failed", "ok"} :
          LET spec == specs[idx]
              handle == derive_handle(spec.branch_name, req.name, DefaultConfig)
              create_ok == outcome # "create_failed" /\ handle # NoStr
                           /\ handle \notin CreatedHandles
          IN  /\ creates' = Append(creates, idx)
              /\ trace' = Append(trace, "create")
              /\ created' = IF create_ok
                            THEN Append(created, [branch_name |-> spec.branch_name,
                                                  handle |-> handle])
                            ELSE created
              /\ IF idx = Len(specs)
                 THEN /\ pc' = "done" /\ idx' = idx
                      /\ result' = IF create_ok THEN "Ok" ELSE "CreateFailed"
                 ELSE pc' = "loop" /\ result' = result /\ idx' = idx + 1
    /\ UNCHANGED <<removeVars, namingVars, openVars, listVars, statusVars, req, specs>>

\* create_worktrees_from_specs: one iteration of the loop, and the Ok(()) after the last
AddCreateSpec ==
    /\ pc = "loop"
    /\ \E outcome \in {"config_failed", "render_failed", "context_failed", "create_failed", "ok"} :
          LET spec == specs[idx]
              handle == derive_handle(spec.branch_name, req.name, DefaultConfig)
              before_create ==
                  IF outcome = "config_failed" THEN "ConfigFailed"
                  ELSE IF handle = NoStr THEN "InvalidHandle"
                  ELSE IF outcome = "render_failed" /\ req.has_prompt THEN "PromptRenderFailed"
                  ELSE IF outcome = "context_failed" THEN "ContextFailed"
                  ELSE "Ok"
              create_ok == outcome # "create_failed" /\ handle \notin CreatedHandles
          IN  IF before_create # "Ok"
              THEN /\ pc' = "done" /\ result' = before_create
                   /\ UNCHANGED <<trace, idx, creates, created>>
              ELSE /\ creates' = Append(creates, idx)
                   /\ trace' = Append(trace, "create")
                   /\ IF ~create_ok
                      THEN /\ pc' = "done" /\ result' = "CreateFailed"
                           /\ UNCHANGED <<idx, created>>
                      ELSE /\ created' = Append(created, [branch_name |-> spec.branch_name,
                                                          handle |-> handle])
                           /\ IF idx = Len(specs)
                              THEN pc' = "done" /\ result' = "Ok" /\ idx' = idx
                              ELSE pc' = "loop" /\ result' = result /\ idx' = idx + 1
    /\ UNCHANGED <<removeVars, namingVars, openVars, listVars, statusVars, req, specs>>

AddInit ==
    /\ listing = <<[path |-> RepoPath, head |-> MainBranch]>>
    /\ canon = [p \in AllPaths |-> IF p = RepoPath THEN RepoPath ELSE NoPath]
    /\ dirty \in {{}, {SourceWorktree}}
    /\ branches = {MainBranch}
    /\ windows = {}
    /\ world0 = [listing |-> listing, canon |-> canon, branches |-> branches,
                 windows |-> windows]
    /\ pc = "idle"
    /\ call = NoCall
    /\ cmd = NoCmd
    /\ result = "none"
    /\ trace = <<>>
    /\ req = NoReq
    /\ specs = <<>>
    /\ idx = 0
    /\ creates = <<>>
    /\ created = <<>>
    /\ nm = NoNaming
    /\ opens = <<>>
    /\ ls = NoList
    /\ st = NoStatus

AddNext ==
    \/ AddStart
    \/ AddRescue
    \/ AddExpand
    \/ AddCreateSpec

AddSpec == AddInit /\ [][AddNext]_vars

----------------------------------------------------------------------------
(* The repositories an invocation may start in *)

Absent == "<absent>"

\* the linked worktrees, in listing order, from the head of each (or Absent)
LinkedBlocks(headA, headB) ==
    (IF headA = Absent THEN <<>> ELSE <<[path |-> PathA, head |-> headA]>>)
    \o (IF headB = Absent THEN <<>> ELSE <<[path |-> PathB, head |-> headB]>>)

\* git checks a branch out in at most one worktree
BranchesDistinct(blocks) ==
    \A i, j \in 1..Len(blocks) :
        (i # j /\ blocks[i].head \in BranchNames) => blocks[i].head # blocks[j].head

Listings ==
    {l \in {<<[path |-> RepoPath, head |-> h0]>> \o LinkedBlocks(hA, hB) :
               h0 \in {"main", "feat", Bare},
               hA \in BranchNames \cup {Detached, Absent},
               hB \in BranchNames \cup {Absent}} :
        BranchesDistinct(l)}

ListedPaths(blocks) == {blocks[i].path : i \in 1..Len(blocks)}

\* a listed path resolves to itself, or does not resolve (the directory was
\* removed by hand); PathA may also be a symlink to the main worktree
FileSystems(blocks) ==
    {c \in [AllPaths -> AllPaths \cup {NoPath}] :
        /\ \A p \in AllPaths \ ListedPaths(blocks) : c[p] = NoPath
        /\ c[RepoPath] \in {RepoPath, NoPath}
        /\ c[PathA] \in {PathA, NoPath} \cup (IF c[RepoPath] = RepoPath THEN {RepoPath} ELSE {})
        /\ c[PathB] \in {PathB, NoPath}}

RemoveInit ==
    /\ listing \in Listings
    /\ canon \in FileSystems(listing)
    /\ dirty \in {{}} \cup {{d} : d \in {canon[p] : p \in AllPaths} \ {NoPath}}
    /\ branches = BranchNames
    /\ windows \in {{}, {file_name(p) : p \in ListedPaths(listing) \ {RepoPath}}}
    /\ world0 = [listing |-> listing, canon |-> canon, branches |-> branches,
                 windows |-> windows]
    /\ pc = "idle"
    /\ call = NoCall
    /\ cmd = NoCmd
    /\ result = "none"
    /\ trace = <<>>
    /\ req = NoReq
    /\ specs = <<>>
    /\ idx = 0
    /\ creates = <<>>
    /\ created = <<>>
    /\ nm = NoNaming
    /\ opens = <<>>
    /\ ls = NoList
    /\ st = NoStatus

RemoveNext ==
    \/ WorkflowRemove
    \/ RemoveCleanup
    \/ RemoveClose
    \/ RemoveCommandValidate
    \/ RemoveCommandInvoke

RemoveSpec == RemoveInit /\ [][RemoveNext]_vars

----------------------------------------------------------------------------
(* workflow/open.rs *)

MaxOpens == 2

\* tmux::window_exists(prefix, handle)
window_exists(handle) == handle \in windows

\* open with the window test left out
open_checks_window_unchecked(name, panes_ok, tmux_running, query_ok) ==
    LET found == find_worktree(listing, name)
    IN  IF ~panes_ok THEN "InvalidPanes"
        ELSE IF ~tmux_running THEN "TmuxNotRunning"
        ELSE IF found.path = NoPath THEN "NotFound"
        ELSE IF file_name(found.path) = NoName THEN "NoHandle"
        ELSE "pass"

\* open, from its entry to the call of setup_environment: the error it
\* returns, or "pass" when it goes on to the setup
open_checks(name, panes_ok, tmux_running, query_ok) ==
    LET found == find_worktree(listing, name)
    IN  IF ~panes_ok THEN "InvalidPanes"
        ELSE IF ~tmux_running THEN "TmuxNotRunning"
        ELSE IF found.path = NoPath THEN "NotFound"
        ELSE IF file_name(found.path) = NoName THEN "NoHandle"
        ELSE IF ~query_ok THEN "WindowQueryFailed"
        ELSE IF window_exists(file_name(found.path)) THEN "WindowExists"
        ELSE "pass"

\* setup::setup_environment: the window of the handle is created and the
\* post-create hooks run.  outcome: "ok"; "failed" before the window was
\* created; "hooks_failed" with the window in place
setup_environment(handle, outcome) ==
    windows' = IF outcome \in {"ok", "hooks_failed"} THEN windows \cup {handle} ELSE windows

\* workflow::open
Open ==
    /\ Len(opens) < MaxOpens
    /\ \E name \in InputNames, panes_ok \in BOOLEAN, tmux_running \in BOOLEAN,
          query_ok \in BOOLEAN, outcome \in {"ok", "failed", "hooks_failed"} :
          LET found == find_worktree(listing, name)
              handle == IF found.path = NoPath THEN NoName ELSE file_name(found.path)
              verdict == open_checks(name, panes_ok, tmux_running, query_ok)
          IN  /\ IF verdict = "pass"
                 THEN setup_environment(handle, outcome)
                 ELSE windows' = windows
              /\ opens' = Append(opens,
                    [name |-> name,
                     handle |-> handle,
                     worktree_found |-> found.path # NoPath,
                     window_before |-> handle \in windows,
                     setup_called |-> verdict = "pass",
                     window_created |-> verdict = "pass" /\ outcome \in {"ok", "hooks_failed"},
                     result |-> IF verdict # "pass" THEN verdict
                                ELSE IF outcome = "ok" THEN "Ok" ELSE "SetupFailed"])
    /\ UNCHANGED <<listing, canon, dirty, branches, world0, pc, call, cmd, result, trace,
                   addVars, namingVars, listVars, statusVars>>

\* the repositories open is called in: the main worktree on the main branch
\* and up to two linked worktrees, with their windows open or not
OpenInit ==
    /\ listing \in {<<[path |-> RepoPath, head |-> MainBranch]>> \o LinkedBlocks(hA, hB) :
                        hA \in {"feat", Detached, Absent}, hB \in {"fix", Absent}}
    /\ canon = [p \in AllPaths |-> IF p \in ListedPaths(listing) THEN p ELSE NoPath]
    /\ dirty = {}
    /\ branches = BranchNames
    /\ windows \in {{}, {file_name(p) : p \in ListedPaths(listing) \ {RepoPath}}}
    /\ world0 = [listing |-> listing, canon |-> canon, branches |-> branches,
                 windows |-> windows]
    /\ pc = "idle"
    /\ call = NoCall
    /\ cmd = NoCmd
    /\ result = "none"
    /\ trace = <<>>
    /\ req = NoReq
    /\ specs = <<>>
    /\ idx = 0
    /\ creates = <<>>
    /\ created = <<>>
    /\ nm = NoNaming
    /\ opens = <<>>
    /\ ls = NoList
    /\ st = NoStatus

OpenNext == Open

OpenSpec == OpenInit /\ [][OpenNext]_vars

----------------------------------------------------------------------------
(* workflow/list.rs *)

\* what a list call finds around it: git::is_git_repo ("yes", "no", or the
\* command could not be run), git::list_worktrees, tmux::is_running,
\* tmux::get_all_window_names, git::get_default_branch, git::get_merge_base,
\* git::get_unmerged_branches and the set the last one reports
ListEnvs ==
    [git_repo : {"yes", "no", "err"},
     listing_ok : BOOLEAN,
     tmux_running : {"yes", "no", "err"},
     windows_ok : BOOLEAN,
     default_branch_ok : BOOLEAN,
     merge_base_ok : BOOLEAN,
     unmerged_ok : BOOLEAN,
     unmerged : {{}, {"feat"}, {"main", "fix"}}]

\* list with the tmux server required
list_verdict_tmux_required(env) ==
    IF env.git_repo = "err" THEN "GitRepoCheckFailed"
    ELSE IF env.git_repo = "no" THEN "NotGitRepo"
    ELSE IF ~env.listing_ok THEN "ListFailed"
    ELSE IF env.tmux_running # "yes" \/ ~env.windows_ok THEN "TmuxFailed"
    ELSE "Ok"

\* list: the error it returns, or "Ok"
list_verdict(env) ==
    IF env.git_repo = "err" THEN "GitRepoCheckFailed"
    ELSE IF env.git_repo = "no" THEN "NotGitRepo"
    ELSE IF ~env.listing_ok THEN "ListFailed"
    ELSE "Ok"

\* list: the window names it looks handles up in
list_tmux_windows(env) ==
    IF env.tmux_running = "yes" /\ env.windows_ok THEN windows ELSE {}

\* list: git::get_default_branch().ok()
list_main_branch(env) == IF env.default_branch_ok THEN MainBranch ELSE NoName

\* list: the unmerged branches, empty when any of the three queries failed
list_unmerged_branches(env) ==
    IF list_main_branch(env) # NoName /\ env.merge_base_ok /\ env.unmerged_ok
    THEN env.unmerged
    ELSE {}

\* the handle taken from the branch name
list_handle_from_branch(path, branch) == branch

\* list: the handle of an entry, the basename of its path
list_handle(path, branch) ==
    IF file_name(path) # NoName THEN file_name(path) ELSE branch

\* list: has_unmerged of an entry
list_has_unmerged(branch, env) ==
    IF list_main_branch(env) # NoName
    THEN IF branch = list_main_branch(env) \/ branch = Detached
         THEN FALSE
         ELSE branch \in list_unmerged_branches(env)
    ELSE FALSE

\* list: the entries, one per worktree of git::list_worktrees, in its order
list_entries(env) ==
    LET worktrees_data == parse_worktree_list_porcelain(listing)
    IN  [i \in 1..Len(worktrees_data) |->
            [branch |-> worktrees_data[i].head,
             path |-> worktrees_data[i].path,
             has_tmux |-> list_handle(worktrees_data[i].path, worktrees_data[i].head)
                             \in list_tmux_windows(env),
             has_unmerged |-> list_has_unmerged(worktrees_data[i].head, env)]]

\* workflow::list
List ==
    /\ ls.state = "none"
    /\ \E env \in ListEnvs :
          ls' = [state |-> "done",
                 env |-> env,
                 result |-> list_verdict(env),
                 entries |-> IF list_verdict(env) = "Ok" THEN list_entries(env) ELSE <<>>]
    /\ UNCHANGED <<removeVars, pc, result, trace, addVars, namingVars, openVars, statusVars>>

\* the repositories list is called in, a window open under any of the handles
ListInit ==
    /\ listing \in Listings
    /\ canon = [p \in AllPaths |-> IF p \in ListedPaths(listing) THEN p ELSE NoPath]
    /\ dirty = {}
    /\ branches = BranchNames
    /\ windows \in SUBSET {file_name(RepoPath), file_name(PathA), file_name(PathB)}
    /\ world0 = [listing |-> listing, canon |-> canon, branches |-> branches,
                 windows |-> windows]
    /\ pc = "idle"
    /\ call = NoCall
    /\ cmd = NoCmd
    /\ result = "none"
    /\ trace = <<>>
    /\ req = NoReq
    /\ specs = <<>>
    /\ idx = 0
    /\ creates = <<>>
    /\ created = <<>>
    /\ nm = NoNaming
    /\ opens = <<>>
    /\ ls = NoList
    /\ st = NoStatus

ListNext == List

ListSpec == ListInit /\ [][ListNext]_vars

----------------------------------------------------------------------------
(* remove, open and list on worktrees whose handle is not their branch *)

\* one of the three operations is run in a behaviour; open is run up to
\* MaxOpens times
HandleRemove == ls.state = "none" /\ opens = <<>> /\ WorkflowRemove
HandleOpen == ls.state = "none" /\ pc = "idle" /\ Open
HandleList == pc = "idle" /\ opens = <<>> /\ List

\* the main worktree and up to two linked worktrees; the directory of a
\* linked worktree is named after its handle, whatever branch is checked out
\* in it: wt/feat may hold the branch fix while wt/fx holds the branch feat
HandleInit ==
    /\ listing \in {l \in {<<[path |-> RepoPath, head |-> MainBranch]>> \o LinkedBlocks(hA, hB) :
                              hA \in {"feat", "fix", Detached, Absent},
                              hB \in {"feat", "fix", Absent}} :
                       BranchesDistinct(l)}
    /\ canon = [p \in AllPaths |-> IF p \in ListedPaths(listing) THEN p ELSE NoPath]
    /\ dirty = {}
    /\ branches = BranchNames
    /\ windows \in SUBSET {file_name(p) : p \in ListedPaths(listing) \ {RepoPath}}
    /\ world0 = [listing |-> listing, canon |-> canon, branches |-> branches,
                 windows |-> windows]
    /\ pc = "idle"
    /\ call = NoCall
    /\ cmd = NoCmd
    /\ result = "none"
    /\ trace = <<>>
    /\ req = NoReq
    /\ specs = <<>>
    /\ idx = 0
    /\ creates = <<>>
    /\ created = <<>>
    /\ nm = NoNaming
    /\ opens = <<>>
    /\ ls = NoList
    /\ st = NoStatus

HandleNext ==
    \/ HandleRemove
    \/ RemoveCleanup
    \/ RemoveClose
    \/ HandleOpen
    \/ HandleList

HandleSpec == HandleInit /\ [][HandleNext]_vars

----------------------------------------------------------------------------
(* command/set_window_status.rs *)

\* the window option @workmux_status is unset; no pane-focus-in hook is set
NoIcon == "<unset>"

\* config.status_icons: three distinct icons, or a configuration that gives
\* working and waiting the same icon
StatusIcons ==
    {[working |-> "W", waiting |-> "?", done |-> "D"],
     [working |-> "X", waiting |-> "X", done |-> "D"]}

SetWindowStatusCommand == {"Working", "Waiting", "Done", "Clear"}

\* what a run finds around it: TMUX_PANE set or not, the notification_type
\* of the hook input on stdin ("none": no input, or input that does not
\* parse), Config::load, and the two tmux commands succeeding or failing
StatusEnvs ==
    [in_tmux : BOOLEAN,
     notification_type : {"none", "idle_prompt", "permission_prompt"},
     config_ok : BOOLEAN,
     set_ok : BOOLEAN,
     hook_ok : BOOLEAN]

\* a hook that unsets the status at every focus
hook_clears_unconditional(status, hook) == hook # NoIcon

\* the hook command: if-shell -F "#{==:#{@workmux_status},ICON}" unsets the
\* status when it equals the icon the hook was built with
hook_clears(status, hook) == hook # NoIcon /\ status = hook

\* set_status: the status and the hook of the window afterwards
set_status(w, icon, env) ==
    [status |-> IF env.set_ok THEN icon ELSE w.status, hook |-> w.hook]

\* set_status_with_auto_clear: nothing more is done when set-option fails;
\* set-hook replaces the hook of the window
set_status_with_auto_clear(w, icon, env) ==
    IF ~env.set_ok THEN [status |-> w.status, hook |-> w.hook]
    ELSE [status |-> icon, hook |-> IF env.hook_ok THEN icon ELSE w.hook]

\* clear_status
clear_status(w, env) ==
    [status |-> IF env.set_ok THEN NoIcon ELSE w.status, hook |-> w.hook]

\* run: where it returns.  "not_in_tmux" and "idle_skip" are the two early
\* Ok returns, "config_failed" is the error of Config::load
run_path(command, env) ==
    IF ~env.in_tmux THEN "not_in_tmux"
    ELSE IF command = "Waiting" /\ env.notification_type = "idle_prompt" THEN "idle_skip"
    ELSE IF ~env.config_ok THEN "config_failed"
    ELSE "dispatch"

\* run: the match on the sub-command
run_dispatch(w, icons, command, env) ==
    CASE command = "Working" -> set_status(w, icons.working, env)
      [] command = "Waiting" -> set_status_with_auto_clear(w, icons.waiting, env)
      [] command = "Done" -> set_status_with_auto_clear(w, icons.done, env)
      [] command = "Clear" -> clear_status(w, env)

\* set_window_status::run
SetWindowStatus ==
    /\ st.state = "live"
    /\ \E command \in SetWindowStatusCommand, env \in StatusEnvs :
          LET w == [status |-> st.status, hook |-> st.hook]
              path == run_path(command, env)
              after == IF path = "dispatch" THEN run_dispatch(w, st.icons, command, env) ELSE w
          IN  st' = [st EXCEPT !.status = after.status,
                               !.hook = after.hook,
                               !.last = [kind |-> "run", command |-> command, env |-> env,
                                         path |-> path,
                                         status_before |-> st.status,
                                         hook_before |-> st.hook,
                                         result |-> IF path = "config_failed"
                                                    THEN "ConfigFailed" ELSE "Ok"]]
    /\ UNCHANGED <<removeVars, pc, result, trace, addVars, namingVars, openVars, listVars>>

\* tmux runs the pane-focus-in hook of the window when it is focused
PaneFocusIn ==
    /\ st.state = "live"
    /\ st' = [st EXCEPT !.status = IF hook_clears(st.status, st.hook) THEN NoIcon ELSE st.status,
                        !.last = [kind |-> "focus", command |-> "none",
                                  env |-> [in_tmux |-> TRUE, notification_type |-> "none",
                                           config_ok |-> TRUE, set_ok |-> TRUE,
                                           hook_ok |-> TRUE],
                                  path |-> "none",
                                  status_before |-> st.status,
                                  hook_before |-> st.hook,
                                  result |-> "none"]]
    /\ UNCHANGED <<removeVars, pc, result, trace, addVars, namingVars, openVars, listVars>>

\* a window with no status and no hook, under either icon configuration
StatusInit ==
    /\ listing = <<[path |-> RepoPath, head |-> MainBranch]>>
    /\ canon = [p \in AllPaths |-> IF p = RepoPath THEN p ELSE NoPath]
    /\ dirty = {}
    /\ branches = BranchNames
    /\ windows = {}
    /\ world0 = [listing |-> listing, canon |-> canon, branches |-> branches,
                 windows |-> windows]
    /\ pc = "idle"
    /\ call = NoCall
    /\ cmd = NoCmd
    /\ result = "none"
    /\ trace = <<>>
    /\ req = NoReq
    /\ specs = <<>>
    /\ idx = 0
    /\ creates = <<>>
    /\ created = <<>>
    /\ nm = NoNaming
    /\ opens = <<>>
    /\ ls = NoList
    /\ \E icons \in StatusIcons :
          st = [state |-> "live", icons |-> icons, status |-> NoIcon, hook |-> NoIcon,
                last |-> [kind |-> "none"]]

StatusNext ==
    \/ SetWindowStatus
    \/ PaneFocusIn

StatusSpec == StatusInit /\ [][StatusNext]_vars

----------------------------------------------------------------------------
(* The calls of derive_handle *)

MaxBranchLen == 3
MaxNameLen == 3

BranchChars == {"a", "b", "/"}
NameChars == {"a", "N", " ", "."}

BranchInputs == SeqsUpTo(BranchChars, MaxBranchLen)
NameInputs == {NoStr} \cup SeqsUpTo(NameChars, MaxNameLen)

\* Config: the naming strategy and the optional prefix
Configs ==
    [worktree_naming : {"Full", "Basename"},
     worktree_prefix : {NoStr, <<"N", "/">>, <<" ">>}]

NamingInit ==
    /\ nm \in {[state |-> "input", branch_name |-> b, explicit_name |-> e, config |-> c,
                 derived_name |-> NoStr, handle |-> NoStr, error |-> "none"] :
                    b \in BranchInputs, e \in NameInputs, c \in Configs}
    /\ listing = <<[path |-> RepoPath, head |-> MainBranch]>>
    /\ canon = [p \in AllPaths |-> IF p = RepoPath THEN RepoPath ELSE NoPath]
    /\ dirty = {}
    /\ branches = {MainBranch}
    /\ windows = {}
    /\ world0 = [listing |-> listing, canon |-> canon, branches |-> branches,
                 windows |-> windows]
    /\ pc = "idle"
    /\ call = NoCall
    /\ cmd = NoCmd
    /\ result = "none"
    /\ trace = <<>>
    /\ req = NoReq
    /\ specs = <<>>
    /\ idx = 0
    /\ creates = <<>>
    /\ created = <<>>
    /\ opens = <<>>
    /\ ls = NoList
    /\ st = NoStatus

NamingNext ==
    \/ DeriveHandle
    \/ DeriveName

NamingSpec == NamingInit /\ [][NamingNext]_vars

----------------------------------------------------------------------------
(* Properties of remove *)

Called(event) == event \in Range(trace)

\* the version-control side and the windows are as they were at the start
WorldUntouched ==
    /\ listing = world0.listing
    /\ canon = world0.canon
    /\ branches = world0.branches
    /\ windows = world0.windows

\* workflow::remove has returned an error
RemoveFailed == pc = "done" /\ result \notin {"Ok", "none"}

\* the target of the call resolved, and its canonical path is that of the main worktree root
TargetIsCanonicalMain ==
    /\ call.active
    /\ call.worktree_path # NoPath
    /\ world0.canon[call.worktree_path] # NoPath
    /\ world0.canon[call.main_worktree_root] # NoPath
    /\ world0.canon[call.worktree_path] = world0.canon[call.main_worktree_root]

\* C1: a remove whose target's canonical path equals the canonical main
\* worktree root returns an error whatever force, delete_remote and
\* keep_branch are, and calls neither cleanup nor the window close.
C1_MainWorktreeProtected ==
    TargetIsCanonicalMain =>
        /\ RemoveFailed
        /\ ~Called("cleanup:call")
        /\ ~Called("close:call")
        /\ WorldUntouched

\* the forced remove of a symlink to the main worktree, on another branch than main
C1_Witness ==
    /\ TargetIsCanonicalMain
    /\ call.worktree_path # call.main_worktree_root
    /\ call.branch_name # call.main_branch
    /\ call.force /\ call.delete_remote /\ call.keep_branch
    /\ result = "ProtectedMainWorktree"

\* position of the first occurrence of an event in the trace (0 when absent)
FirstIndex(event) ==
    IF Called(event) THEN CHOOSE i \in 1..Len(trace) :
                              trace[i] = event /\ \A j \in 1..(i - 1) : trace[j] # event
    ELSE 0

\* C2: when cleanup returns an error the window close is never called and the
\* window of the handle is as open as it was; the window close is called only
\* after cleanup has returned success.
C2_CloseOnlyAfterCleanupOk ==
    /\ Called("cleanup:err") =>
          /\ ~Called("close:call")
          /\ (pc = "done" => result = "CleanupFailed")
          /\ windows = world0.windows
    /\ Called("close:call") =>
          /\ Called("cleanup:ok")
          /\ FirstIndex("cleanup:ok") < FirstIndex("close:call")

\* cleanup failed after removing the worktree, and the window is still open
C2_Witness ==
    /\ pc = "done"
    /\ result = "CleanupFailed"
    /\ call.worktree_path \notin ListedPaths(listing)
    /\ call.handle \in windows

\* the call is about a worktree that passes both protections (it is not the
\* main worktree and not on the main branch), whose directory exists and for
\* which git status reports uncommitted changes
DirtyLinkedTarget ==
    /\ call.active
    /\ call.worktree_path # NoPath
    /\ ~TargetIsCanonicalMain
    /\ call.worktree_path # call.main_worktree_root
    /\ call.branch_name # call.main_branch
    /\ world0.canon[call.worktree_path] # NoPath
    /\ world0.canon[call.worktree_path] \in dirty
    /\ call.status_query = "ok"

\* C3: on a worktree that is not protected, exists and has uncommitted
\* changes, remove with force=false returns the dirty-worktree error and
\* calls neither cleanup nor the window close (nothing changes); with
\* force=true the dirty check does not block and remove goes on to cleanup.
C3_DirtyGate ==
    DirtyLinkedTarget =>
        IF call.force
        THEN pc = "cleanup" \/ Called("cleanup:call")
        ELSE /\ pc = "done"
             /\ result = "DirtyWorktree"
             /\ ~Called("cleanup:call")
             /\ ~Called("close:call")
             /\ WorldUntouched

\* a forced remove of a dirty worktree that completed
C3_Witness ==
    /\ DirtyLinkedTarget
    /\ call.force
    /\ Called("cleanup:ok")
    /\ result = "Ok"

\* C4: a remove whose branch_name is the main branch returns an error whatever
\* force and keep_branch are and wherever the branch is checked out, and calls
\* neither cleanup nor the window close.
C4_MainBranchProtected ==
    (call.active /\ call.branch_name = call.main_branch) =>
        /\ RemoveFailed
        /\ ~Called("cleanup:call")
        /\ ~Called("close:call")
        /\ WorldUntouched

\* the main branch checked out in a linked worktree, removed with force and keep_branch
C4_Witness ==
    /\ call.active
    /\ call.branch_name = call.main_branch
    /\ call.worktree_path = PathA
    /\ ~TargetIsCanonicalMain
    /\ call.force /\ call.keep_branch
    /\ result = "ProtectedMainBranch"

\* the line the user typed is y or Y, surrounding whitespace aside
AnsweredYes(answer) == Trim(answer) \in {<<"y">>, <<"Y">>}

\* C5: without --force, when the branch has unmerged commits and the user
\* answers anything but y/Y, the command returns success and workflow::remove
\* is never entered: no hook announcement, no cleanup, no window close.  The
\* abort is decided at this gate only: once workflow::remove has started the
\* command is never aborted.
C5_AbortBeforeRemove ==
    /\ (/\ cmd.active /\ ~cmd.force /\ cmd.has_unmerged /\ cmd.prompted
        /\ cmd.answer # ReadFailed /\ ~AnsweredYes(cmd.answer)) =>
          /\ pc = "done"
          /\ result = "Ok"
          /\ cmd.aborted
          /\ ~call.active
          /\ trace = <<"prompt">>
          /\ WorldUntouched
    /\ (cmd.active /\ (call.active \/ Called("announce:pre_delete"))) => ~cmd.aborted

\* the user answered "yes" to the prompt and the command stopped there
C5_Witness ==
    /\ cmd.active /\ ~cmd.force /\ cmd.prompted
    /\ cmd.answer = <<"y", "e", "s", "\n">>
    /\ cmd.aborted
    /\ pc = "done"
    /\ result = "Ok"

----------------------------------------------------------------------------
(* Properties of add *)

AddFailed == pc = "done" /\ result \notin {"Ok", "none"}

\* the creation loop was entered
LoopEntered == req.active /\ idx >= 1

\* C6: the specs are created one after another in spec order; when a step of
\* spec i fails, add returns the error with create called for no spec after
\* i and with every pair created for the specs before i still in place.
C6_SequentialFailFast ==
    LoopEntered =>
        /\ creates = [i \in 1..Len(creates) |-> i]
        /\ Len(creates) <= idx
        /\ Len(created) <= Len(creates)
        /\ \A j \in 1..Len(created) : created[j].branch_name = specs[j].branch_name
        /\ pc = "loop" => Len(created) = idx - 1 /\ Len(creates) = idx - 1
        /\ AddFailed => Len(created) = idx - 1
        /\ (pc = "done" /\ result = "Ok") => Len(created) = Len(specs)

\* the second of three specs failed in create: the first is in place, the third untouched
C6_Witness ==
    /\ AddFailed
    /\ Len(specs) = 3
    /\ idx = 2
    /\ creates = <<1, 2>>
    /\ Len(created) = 1
    /\ created[1].branch_name = specs[1].branch_name

\* the request names a source of more than one spec: several agents, a count
\* above 1, a matrix on the command line, or a frontmatter matrix of several rows
HasExpansionSource(r) ==
    \/ Len(r.agent) > 1
    \/ (r.count # NoCount /\ r.count > 1)
    \/ r.foreach # NoRows
    \/ (r.has_prompt /\ r.frontmatter_foreach \in RowMatrices /\ Len(r.frontmatter_foreach) > 1)

\* C7: with an explicit name and any source of more than one spec (several
\* agents, a count above 1, a matrix on the command line or in the prompt
\* frontmatter) add fails before any worktree is created.
C7_NameExcludesExpansion ==
    (req.active /\ ~req.with_changes /\ req.name # NoStr /\ HasExpansionSource(req)) =>
        /\ creates = <<>>
        /\ created = <<>>
        /\ pc = "done" => AddFailed

\* C8: a count above 1 together with more than one agent fails before any
\* spec is generated and before any worktree is created.
C8_CountAgentsExclusive ==
    (req.active /\ req.count # NoCount /\ req.count > 1 /\ Len(req.agent) > 1) =>
        /\ ~Called("generate")
        /\ specs = <<>>
        /\ creates = <<>>
        /\ created = <<>>
        /\ pc # "loop"
        /\ pc = "done" => AddFailed

\* count 2 with two agents reached the rule and was rejected by it
C8_Witness ==
    /\ req.active
    /\ req.count = 2
    /\ Len(req.agent) = 2
    /\ pc = "done"
    /\ result = "CountWithAgents"

\* C9: for a matrix combined with a non-empty agent list, whether the request
\* is rejected does not depend on the source of the matrix: the same matrix
\* moved to the other source gives the same outcome, and a frontmatter matrix
\* that the command line overrides gives the outcome of the request without it.
C9_MatrixSourceIrrelevant ==
    (/\ req.active
     /\ Called("rule:foreach_agents")
     /\ req.agent # <<>>
     /\ (req.foreach # NoRows \/ prompt_foreach(req) # NoRows)) =>
        LET rejected == result = "ForeachWithAgents"
            swapped == [req EXCEPT !.foreach = prompt_foreach(req),
                                   !.frontmatter_foreach = req.foreach,
                                   !.has_prompt = TRUE]
            not_overridden == [req EXCEPT !.frontmatter_foreach = NoRows]
        IN  /\ rejected <=> foreach_agent_conflict(swapped)
            /\ req.foreach # NoRows => (rejected <=> foreach_agent_conflict(not_overridden))

\* C10: with no count and no matrix, n >= 1 agents give exactly n specs in
\* the agents' order, and no agent gives exactly one spec, for the base
\* branch name.
C10_ExpansionCardinality ==
    (/\ req.active
     /\ Called("generate")
     /\ req.count = NoCount
     /\ req.foreach = NoRows
     /\ (req.has_prompt => req.frontmatter_foreach = NoRows)) =>
        IF req.agent = <<>>
        THEN Len(specs) = 1 /\ specs[1].branch_name = BaseBranch
        ELSE /\ Len(specs) = Len(req.agent)
             /\ \A i \in 1..Len(specs) : specs[i].agent = req.agent[i]

\* the agents b, a gave two specs, for b and then for a
C10_Witness ==
    /\ req.active
    /\ Called("generate")
    /\ req.count = NoCount
    /\ req.foreach = NoRows
    /\ ~req.has_prompt
    /\ req.agent = <<<<"b">>, <<"a">>>>
    /\ Len(specs) = 2
    /\ specs[1].agent = <<"b">>
    /\ specs[2].agent = <<"a">>

\* C11: when spec generation yields no spec, add returns an error and the
\* creation loop is not entered; and in the normal flow add never returns
\* success without having created a worktree.
C11_EmptySpecsIsError ==
    /\ (req.active /\ Called("generate") /\ specs = <<>>) =>
          /\ pc = "done"
          /\ result = "NoSpecs"
          /\ ~LoopEntered
          /\ creates = <<>>
          /\ created = <<>>
    /\ (req.active /\ ~req.with_changes /\ pc = "done" /\ result = "Ok") =>
          Len(created) >= 1

\* a count of zero generated no spec and add failed on it
C11_Witness ==
    /\ req.active
    /\ req.count = 0
    /\ Called("generate")
    /\ specs = <<>>
    /\ pc = "done"
    /\ result = "NoSpecs"

\* the matrix the request selects: the command line's when given, else the
\* frontmatter's when a prompt carries one, else none
SelectedMatrix(r) ==
    IF r.foreach # NoRows THEN r.foreach
    ELSE IF r.has_prompt /\ r.frontmatter_foreach # NoRows THEN r.frontmatter_foreach
    ELSE NoRows

\* C12: the effective matrix is the command line's whenever --foreach is
\* given (a frontmatter matrix is then ignored, with a warning and only then),
\* else the frontmatter's, else none; when the selected source does not parse
\* add fails with the parse error and generates nothing, whatever the other
\* source holds.
C12_MatrixSelection ==
    (req.active /\ Called("matrix:determine")) =>
        LET selected == SelectedMatrix(req)
        IN  /\ Called("warn:foreach_override") <=>
                  (req.foreach # NoRows /\ req.has_prompt /\ req.frontmatter_foreach # NoRows)
            /\ selected = BadRows =>
                  /\ pc = "done"
                  /\ result = "ForeachParseFailed"
                  /\ ~Called("generate")
                  /\ specs = <<>>
            /\ result = "ForeachParseFailed" => selected = BadRows
            /\ Called("generate") =>
                  specs = generate_worktree_specs(generate_args(req, selected))

\* an unparsable --foreach over a frontmatter matrix that parses: warned, and failed
C12_Witness ==
    /\ req.active
    /\ req.foreach = BadRows
    /\ req.has_prompt
    /\ req.frontmatter_foreach = <<<<"x">>, <<"y">>>>
    /\ Called("warn:foreach_override")
    /\ pc = "done"
    /\ result = "ForeachParseFailed"

----------------------------------------------------------------------------
(* Properties of derive_handle *)

\* the last maximal run of characters other than '/', empty when there is none
LastNonEmptySegment(s) ==
    LET ends == {j \in 1..Len(s) : s[j] # "/"}
    IN  IF ends = {} THEN <<>>
        ELSE LET last == CHOOSE j \in ends : \A k \in ends : k <= j
                 starts == {i \in 1..last : \A k \in i..last : s[k] # "/"}
                 first == CHOOSE i \in starts : \A k \in starts : i <= k
             IN  SubSeq(s, first, last)

\* what the claim says is normalized when no explicit name is given
PrefixedStrategyName(n) ==
    (IF n.config.worktree_prefix = NoStr THEN <<>> ELSE n.config.worktree_prefix)
    \o (IF n.config.worktree_naming = "Basename"
        THEN LastNonEmptySegment(n.branch_name)
        ELSE n.branch_name)

\* C13: with an explicit name the handle is the slug of the name alone (an
\* error when that slug is empty): it is a function of the name only, so any
\* two branch names and any two configurations give the same handle.
C13_ExplicitNameBypass ==
    (nm.state = "derived" /\ nm.explicit_name # NoStr) =>
        LET slug == slugify(nm.explicit_name)
        IN  nm.handle = IF slug = <<>> THEN NoStr ELSE slug

\* the name "N a" under the Basename strategy with the prefix "N/" gave n-a
C13_Witness ==
    /\ nm.state = "derived"
    /\ nm.explicit_name = <<"N", " ", "a">>
    /\ nm.branch_name = <<"a", "/", "b">>
    /\ nm.config = [worktree_naming |-> "Basename", worktree_prefix |-> <<"N", "/">>]
    /\ nm.handle = <<"n", "-", "a">>

\* C14: without an explicit name the handle is slugify(prefix ++
\* strategy(branch)): the strategy is applied to the branch name alone, the
\* prefix is put in front of its result, and the whole is normalized last.
C14_DerivedHandleOrder ==
    (nm.state = "derived" /\ nm.explicit_name = NoStr) =>
        LET expected == slugify(PrefixedStrategyName(nm))
        IN  nm.handle = IF expected = <<>> THEN NoStr ELSE expected

\* the prefix "N/" kept whole and normalized in front of the basename of a/b
C14_Witness ==
    /\ nm.state = "derived"
    /\ nm.explicit_name = NoStr
    /\ nm.branch_name = <<"a", "/", "b">>
    /\ nm.config = [worktree_naming |-> "Basename", worktree_prefix |-> <<"N", "/">>]
    /\ nm.handle = <<"n", "-", "b">>

\* C15: the Basename strategy gives the last non-empty '/'-separated segment
\* of the branch name, and the branch name itself when it has no separator;
\* the Full strategy gives the branch name unchanged.
C15_StrategyNames ==
    nm.state = "named" =>
        IF nm.config.worktree_naming = "Basename"
        THEN /\ nm.derived_name = LastNonEmptySegment(nm.branch_name)
             /\ "/" \notin Range(nm.branch_name) => nm.derived_name = nm.branch_name
        ELSE nm.derived_name = nm.branch_name

\* the basename of a/b/ is b
C15_Witness ==
    /\ nm.state = "named"
    /\ nm.config.worktree_naming = "Basename"
    /\ nm.branch_name = <<"a", "b", "/">>
    /\ nm.derived_name = <<"a", "b">>

\* C16: a handle derive_handle returns is not empty, has no whitespace, has
\* no ".." and does not start with '/'.
C16_HandleSafe ==
    (nm.state = "derived" /\ nm.handle # NoStr) =>
        /\ nm.handle # <<>>
        /\ \A i \in 1..Len(nm.handle) : nm.handle[i] \notin Whitespace
        /\ ~\E i \in 1..(Len(nm.handle) - 1) : nm.handle[i] = "." /\ nm.handle[i + 1] = "."
        /\ nm.handle[1] # "/"

\* the name N.. gives the handle n
C16_Witness ==
    /\ nm.state = "derived"
    /\ nm.explicit_name = <<"N", ".", ".">>
    /\ nm.handle = <<"n">>

\* what is normalized: the explicit name, or the prefixed strategy name
NormalizedInput(n) ==
    IF n.explicit_name # NoStr THEN slugify(n.explicit_name)
    ELSE slugify(PrefixedStrategyName(n))

\* C17: derive_handle returns the empty-handle error, and no handle, whenever
\* what it normalizes comes out empty: an empty explicit name, an explicit
\* name of removed characters only, or a prefix and strategy name that
\* normalize to nothing.
C17_EmptyHandleRejected ==
    (nm.state = "derived" /\ NormalizedInput(nm) = <<>>) =>
        /\ nm.handle = NoStr
        /\ nm.error = "Handle cannot be empty"

\* the prefix " " in front of the basename of "/" normalizes to nothing
C17_Witness ==
    /\ nm.state = "derived"
    /\ nm.explicit_name = NoStr
    /\ nm.branch_name = <<"/">>
    /\ nm.config = [worktree_naming |-> "Basename", worktree_prefix |-> <<" ">>]
    /\ nm.handle = NoStr
    /\ nm.error = "Handle cannot be empty"

----------------------------------------------------------------------------
(* Properties of open *)

\* the windows of a handle: the one open at the start, and those open created
WindowCount(h) ==
    (IF h \in world0.windows THEN 1 ELSE 0)
    + Cardinality({i \in 1..Len(opens) : opens[i].window_created /\ opens[i].handle = h})

\* C18: open calls setup_environment only when a worktree matches the name and
\* the handle has no window; otherwise it returns an error and creates no
\* window.  After any sequence of opens a handle has at most one window.
C18_OpenOnlyWhenAbsent ==
    /\ \A i \in 1..Len(opens) :
          /\ opens[i].setup_called => (opens[i].worktree_found /\ ~opens[i].window_before)
          /\ ~opens[i].setup_called =>
                (opens[i].result \notin {"Ok", "SetupFailed"} /\ ~opens[i].window_created)
    /\ \A h \in {opens[i].handle : i \in 1..Len(opens)} \cup windows : WindowCount(h) <= 1

\* the worktree opened by its branch, then refused by its handle
C18_Witness ==
    /\ Len(opens) = 2
    /\ opens[1].name = "fix"
    /\ opens[1].window_created
    /\ opens[2].name = "fx"
    /\ opens[2].handle = opens[1].handle
    /\ opens[2].result = "WindowExists"
    /\ WindowCount(opens[1].handle) = 1

----------------------------------------------------------------------------
(* Properties of the rescue flow and of the main worktree *)

\* C19: a rescue on a source worktree without changes creates nothing, and
\* the caller is told neither of an error nor of changes having been moved.
C19_RescueNoOp ==
    (/\ req.active
     /\ req.with_changes
     /\ Called("create_with_changes")
     /\ ~has_uncommitted_changes(SourceWorktree)) =>
        /\ created = <<>>
        /\ WorldUntouched
        /\ ~AddFailed
        /\ ~Called("print:moved")

\* the target of the call is the main worktree, by the path git reports
TargetIsMainWorktree ==
    /\ call.active
    /\ call.worktree_path # NoPath
    /\ call.worktree_path = world0.listing[1].path

\* C20: remove never reaches cleanup for the main worktree, whether or not
\* its path canonicalizes and whatever branch it has checked out.
C20_MainWorktreeNeverCleaned ==
    TargetIsMainWorktree =>
        /\ RemoveFailed
        /\ result = "ProtectedMainWorktree"
        /\ ~Called("cleanup:call")
        /\ ~Called("close:call")
        /\ WorldUntouched

\* the main worktree, its directory gone and feat checked out, removed with force
C20_Witness ==
    /\ TargetIsMainWorktree
    /\ world0.canon[call.worktree_path] = NoPath
    /\ call.branch_name = "feat"
    /\ call.force
    /\ result = "ProtectedMainWorktree"

----------------------------------------------------------------------------
(* Properties of the remove command's validation *)

\* the command found a worktree whose directory exists and has uncommitted changes
CommandTargetDirty ==
    /\ cmd.active
    /\ cmd.worktree_path # NoPath
    /\ world0.canon[cmd.worktree_path] # NoPath
    /\ world0.canon[cmd.worktree_path] \in dirty

\* C21: without --force, on a worktree whose directory exists and has
\* uncommitted changes, the command fails at the uncommitted-changes check:
\* the unmerged-commits check is not run, no prompt is shown, no answer is
\* read and workflow::remove is not entered.
C21_DirtyBeforePrompt ==
    (CommandTargetDirty /\ ~cmd.force) =>
        /\ pc = "done"
        /\ result \in {"DirtyWorktree", "StatusFailed"}
        /\ cmd.uncommitted_checked
        /\ ~cmd.unmerged_checked
        /\ ~cmd.prompted
        /\ cmd.answer = <<>>
        /\ ~Called("prompt")
        /\ ~call.active
        /\ WorldUntouched

\* a dirty worktree whose branch would be deleted, refused without a prompt
C21_Witness ==
    /\ CommandTargetDirty
    /\ ~cmd.force
    /\ ~cmd.keep_branch
    /\ cmd.branch_name = "fix"
    /\ pc = "done"
    /\ result = "DirtyWorktree"
    /\ trace = <<>>

\* C22: the force flag the command passes to workflow::remove is true exactly
\* when --force was given or the user confirmed the prompt; with keep_branch
\* and without --force the unmerged-commits check is skipped, nobody is
\* prompted and the flag passed is false.
C22_EffectiveForce ==
    /\ (cmd.active /\ (pc = "invoke" \/ call.active)) =>
          /\ cmd.effective_force <=> (cmd.force \/ (cmd.prompted /\ AnsweredYes(cmd.answer)))
          /\ call.active => call.force = cmd.effective_force
    /\ (cmd.active /\ cmd.keep_branch /\ ~cmd.force) =>
          /\ ~cmd.unmerged_checked
          /\ ~cmd.prompted
          /\ ~Called("prompt")
          /\ ~cmd.effective_force
          /\ call.active => ~call.force

\* a removal that keeps the branch went through unforced and unprompted
C22_Witness ==
    /\ cmd.active
    /\ cmd.keep_branch
    /\ ~cmd.force
    /\ call.active
    /\ ~call.force
    /\ call.keep_branch
    /\ Called("cleanup:ok")
    /\ result = "Ok"

\* the forced call is about a worktree that passes both protections
ForcedLinkedTarget ==
    /\ call.active
    /\ call.force
    /\ call.worktree_path # NoPath
    /\ ~TargetIsCanonicalMain
    /\ call.worktree_path # call.main_worktree_root
    /\ call.branch_name # call.main_branch

\* C23: a forced remove of a worktree that is not protected goes on to
\* cleanup whatever the uncommitted-changes query does: clean, dirty or failed.
C23_ForceIgnoresStatusQuery ==
    ForcedLinkedTarget =>
        /\ pc = "cleanup" \/ Called("cleanup:call")
        /\ result \notin {"DirtyWorktree", "StatusFailed"}

----------------------------------------------------------------------------
(* Properties of add: the count rule and the rescue flow *)

\* C24: the count/agent rule rejects only a count above 1 with more than one
\* agent: with a count of 1, or without a count, several agents are not
\* rejected by the rule, and without a count they give one spec per agent.
C24_CountOneWithAgents ==
    (req.active /\ (req.count = NoCount \/ req.count = 1) /\ Len(req.agent) > 1) =>
        /\ result # "CountWithAgents"
        /\ (Called("generate") /\ req.count = NoCount /\ SelectedMatrix(req) = NoRows) =>
              Len(specs) = Len(req.agent)

\* C25: add --with-changes does the rescue and nothing else: with more than
\* one agent it is rejected before anything is done; otherwise add returns
\* success after create_with_changes succeeded and its error after it failed,
\* without generating specs or entering the creation loop; at most one pair
\* is created.
C25_RescueOnly ==
    (req.active /\ req.with_changes) =>
        /\ pc \in {"rescue", "done"}
        /\ ~Called("generate")
        /\ ~LoopEntered
        /\ specs = <<>>
        /\ creates = <<>>
        /\ Len(created) <= 1
        /\ Len(req.agent) > 1 =>
              /\ pc = "done"
              /\ result \in {"BranchNameFailed", "WithChangesMultiAgent"}
              /\ ~Called("create_with_changes")
              /\ created = <<>>
        /\ Called("print:moved") => (pc = "done" /\ result = "Ok")
        /\ (Called("create_with_changes") /\ ~Called("print:moved")) =>
              (pc = "done" /\ result = "RescueFailed" /\ created = <<>>)

\* the changes were moved to one new worktree and add returned
C25_Witness ==
    /\ req.active
    /\ req.with_changes
    /\ req.count = 2
    /\ has_uncommitted_changes(SourceWorktree)
    /\ Called("print:moved")
    /\ Len(created) = 1
    /\ pc = "done"
    /\ result = "Ok"

----------------------------------------------------------------------------
(* Properties of the lookups *)

\* C27: the identifier the remove command passes to workflow::remove resolves
\* there to the worktree find_worktree resolved in the command: the workflow
\* never answers "no worktree found" and never selects another worktree
\* (stated here for the linked worktrees).
C27_LayersAgreeOnTarget ==
    (cmd.active /\ call.active /\ cmd.worktree_path # world0.listing[1].path) =>
        /\ result # "NotFound"
        /\ call.worktree_path = cmd.worktree_path

\* C28: get_main_worktree_root gives the path of the first block of git's
\* listing, also when that block has neither a branch nor a detached line;
\* it never gives the path of a linked worktree.
C28_MainRootIsFirstBlock ==
    call.active =>
        /\ call.main_worktree_root = world0.listing[1].path
        /\ \A i \in 2..Len(world0.listing) : call.main_worktree_root # world0.listing[i].path


\* the worktrees git::list_worktrees returned to the list call
ListedWorktrees == parse_worktree_list_porcelain(listing)

\* C26: remove, open and list take the handle of a worktree from the basename
\* of the directory git records for it, not from its branch: remove closes
\* the window named after the directory, open reports and creates the window
\* named after the directory, and list sets has_tmux by the window named
\* after the directory, also when the branch checked out there has another
\* name.
C26_HandleFromDirectory ==
    /\ (call.active /\ call.worktree_path # NoPath) =>
          /\ call.handle = file_name(call.worktree_path)
          /\ ("close:ok" \in Range(trace)) =>
                windows = world0.windows \ {file_name(call.worktree_path)}
    /\ \A i \in 1..Len(opens) :
          opens[i].worktree_found =>
             /\ opens[i].handle = file_name(find_worktree(world0.listing, opens[i].name).path)
             /\ opens[i].window_created => file_name(find_worktree(world0.listing, opens[i].name).path) \in windows
    /\ (ls.state = "done" /\ ls.result = "Ok"
            /\ ls.env.tmux_running = "yes" /\ ls.env.windows_ok) =>
          \A i \in 1..Len(ls.entries) :
             ls.entries[i].has_tmux = (file_name(ls.entries[i].path) \in windows)

\* list found a window for a worktree whose directory is not named after its
\* branch, and no window is named after the branch
C26_Witness ==
    /\ ls.state = "done"
    /\ ls.result = "Ok"
    /\ \E i \in 1..Len(ls.entries) :
          /\ ls.entries[i].has_tmux
          /\ file_name(ls.entries[i].path) # ls.entries[i].branch
          /\ ls.entries[i].branch \notin windows

\* C29: list fails only when the repository test does not say yes or the
\* worktree listing fails.  Otherwise it succeeds with one entry per listed
\* worktree in listing order; has_tmux is false for every entry when tmux is
\* not running or the window query fails, has_unmerged is false for every
\* entry when the default branch, the merge base or the unmerged set cannot
\* be determined, and has_unmerged is false for the default branch and for
\* detached worktrees in every case.
C29_ListDegrades ==
    ls.state = "done" =>
       /\ ls.result # "Ok" => (ls.env.git_repo # "yes" \/ ~ls.env.listing_ok)
       /\ (ls.env.git_repo = "yes" /\ ls.env.listing_ok) =>
             /\ ls.result = "Ok"
             /\ Len(ls.entries) = Len(ListedWorktrees)
             /\ \A i \in 1..Len(ls.entries) :
                   /\ ls.entries[i].path = ListedWorktrees[i].path
                   /\ ls.entries[i].branch = ListedWorktrees[i].head
                   /\ ls.entries[i].branch \in {MainBranch, Detached} => ~ls.entries[i].has_unmerged
             /\ (ls.env.tmux_running # "yes" \/ ~ls.env.windows_ok) =>
                   \A i \in 1..Len(ls.entries) : ~ls.entries[i].has_tmux
             /\ (~ls.env.default_branch_ok \/ ~ls.env.merge_base_ok \/ ~ls.env.unmerged_ok) =>
                   \A i \in 1..Len(ls.entries) : ~ls.entries[i].has_unmerged

\* list succeeded with the tmux query and the merge-base query both failing,
\* over two or more worktrees one of which has its window open and its
\* branch in the set git would have reported
C29_Witness ==
    /\ ls.state = "done"
    /\ ls.result = "Ok"
    /\ ls.env.tmux_running = "err"
    /\ ~ls.env.merge_base_ok
    /\ Len(ls.entries) >= 2
    /\ \E i \in 1..Len(ls.entries) :
          /\ file_name(ls.entries[i].path) \in windows
          /\ ls.entries[i].branch \in ls.env.unmerged


\* the three icons of the configuration differ from one another
IconsDistinct ==
    /\ st.icons.working # st.icons.waiting
    /\ st.icons.working # st.icons.done
    /\ st.icons.waiting # st.icons.done

\* C30: a focus changes the status only by unsetting it, and only when the
\* status at that moment equals the icon of the hook a Waiting or Done
\* installed; with distinct icons a Working status is left alone by a focus;
\* Working leaves the hook as it was; Waiting on an idle_prompt notification
\* leaves status and hook as they were; a run outside tmux changes nothing;
\* and a run returns Ok whatever the tmux commands do, inside tmux or not
\* (its one error is a configuration that does not load).
C30_StatusMachine ==
    /\ st.state = "live"
    /\ st.hook \in {NoIcon, st.icons.waiting, st.icons.done}
    /\ st.last.kind = "focus" =>
          /\ st.status # st.last.status_before =>
                /\ st.status = NoIcon
                /\ st.last.hook_before \in {st.icons.waiting, st.icons.done}
                /\ st.last.status_before = st.last.hook_before
          /\ (IconsDistinct /\ st.last.status_before = st.icons.working) =>
                st.status = st.icons.working
          /\ st.hook = st.last.hook_before
    /\ st.last.kind = "run" =>
          /\ st.last.command = "Working" => st.hook = st.last.hook_before
          /\ (st.last.command = "Waiting" /\ st.last.env.in_tmux
                  /\ st.last.env.notification_type = "idle_prompt") =>
                (st.status = st.last.status_before /\ st.hook = st.last.hook_before)
          /\ ~st.last.env.in_tmux =>
                (st.status = st.last.status_before /\ st.hook = st.last.hook_before)
          /\ st.last.result # "Ok" =>
                (st.last.env.in_tmux /\ ~st.last.env.config_ok /\ st.last.path = "config_failed")
          /\ (st.last.env.config_ok \/ ~st.last.env.in_tmux) => st.last.result = "Ok"

\* a focus of a window whose hook was installed by Waiting and whose status
\* had since been set by Working: the status stays
C30_Witness ==
    /\ st.state = "live"
    /\ IconsDistinct
    /\ st.last.kind = "focus"
    /\ st.last.hook_before = st.icons.waiting
    /\ st.last.status_before = st.icons.working
    /\ st.status = st.icons.working

====
